---- MODULE Spec2Model ----
(***************************************************************************)
(* A model of translatepy's DeepL translator                               *)
(* (src/translatepy/translators/deepl.py): the job builder, the JSON-RPC   *)
(* session with its rate limiter, the glossary matcher and the translate   *)
(* and language operations.                                                *)
(*                                                                         *)
(* Python strings are sequences of one-character strings, so that          *)
(* substring tests, joins and character counts are computed, not assumed.  *)
(* Python lists that are mutated in place live in a heap and are named by  *)
(* references, so that list.copy() differs from sharing the list.          *)
(***************************************************************************)
EXTENDS Integers, Sequences, FiniteSets, TLC

\* ------------------------------------------------------------------ bounds
MaxSentences == 7
\* How far the clock runs past the first call, and how many calls a caller
\* makes.
Horizon == 11
MaxCalls == 2
\* The number of calls each of two concurrent callers makes.
MaxSharedCalls == 1
\* The longest glossary, the longest list of translations in a response,
\* and the longest time a post takes.
MaxTerms == 12
MaxTranslations == 3
MaxDelay == 1

\* ---------------------------------------------------------------- helpers
\* All sequences over S of length at most n.
SeqsUpTo(S, n) == UNION {[1..k -> S] : k \in 0..n}

Max(a, b) == IF a >= b THEN a ELSE b
Min(a, b) == IF a <= b THEN a ELSE b

\* Python's s[i] for a 0-based index i inside the list.
At(s, i) == s[i + 1]

\* ---------------------------------------------------------------- strings
\* str.upper() on the letters the model uses.
UpperChar(ch) ==
    CASE ch = "e" -> "E" [] ch = "n" -> "N" [] ch = "f" -> "F"
      [] ch = "r" -> "R" [] ch = "k" -> "K" [] ch = "o" -> "O"
      [] ch = "a" -> "A" [] ch = "u" -> "U" [] ch = "t" -> "T"
      [] ch = "d" -> "D"
      [] OTHER -> ch

Upper(str) == [k \in 1..Len(str) |-> UpperChar(str[k])]

\* `w in t` for two strings: w occurs in t as a contiguous substring.
IsSubstring(w, t) ==
    \E k \in 0..(Len(t) - Len(w)) : SubSeq(t, k + 1, k + Len(w)) = w

\* `ch in t` for a character.
HasChar(ch, t) == \E k \in 1..Len(t) : t[k] = ch

\* The order of characters that sorting uses.
Alphabet == <<"\"", "a", "b", "c", "d", "e", "f", "g", "h", "i", "j", "k",
              "l", "m", "n", "o", "p", "x", "y", "z">>
Rank(ch) == CHOOSE k \in 1..Len(Alphabet) : Alphabet[k] = ch

\* a < b for two strings, as Python compares them.
RECURSIVE StrLess(_, _)
StrLess(a, b) ==
    IF b = <<>> THEN FALSE
    ELSE IF a = <<>> THEN TRUE
    ELSE IF a[1] # b[1] THEN Rank(a[1]) < Rank(b[1])
    ELSE StrLess(Tail(a), Tail(b))

\* ------------------------------------------------------------- the inputs
\* Two sentences ("Hi." and "it?"), enough to tell any two positions apart.
SentenceSet == {<<"H", "i", ".">>, <<"i", "t", "?">>}

QualitySet == {<<>>, <<"f", "a", "s", "t">>}

VARIABLES
    sentences,  \* _build_jobs: the argument `sentences`
    quality,    \* _build_jobs: the argument `quality`
    index,      \* _build_jobs: the loop index of enumerate(sentences)
    before,     \* _build_jobs: the local `before`, a reference into heap (0: unbound)
    after,      \* _build_jobs: the local `after`
    jobs,       \* _build_jobs: the local `jobs`
    heap,       \* the lists that are mutated in place, by reference
    bpc         \* _build_jobs: "loop" while walking, "done" once returned

VARIABLES
    now,         \* the clock read by time()
    id_number,   \* JSONRPCRequest.id_number
    last_access, \* JSONRPCRequest.last_access
    pc,          \* send_jsonrpc: each caller's position
    wake,        \* send_jsonrpc: the time at which the caller's sleep() ends
    slept,       \* send_jsonrpc: the argument of the caller's last sleep()
    tmp,         \* dump: the value loaded by `self.id_number += 1`
    reqId,       \* dump: the "id" of the request being sent
    outcome,     \* send_jsonrpc: how the caller's last call ended
    calls,       \* the number of calls each caller has started
    budget,      \* the number of calls each caller is to make
    posts        \* the posts issued on the session, in order of dispatch

VARIABLES
    lg_source,   \* load_glossary_from_csv: source_language
    lg_target,   \* load_glossary_from_csv: target_language
    csv,         \* load_glossary_from_csv: the file, then the data frame
    lg_result,   \* load_glossary_from_csv: the glossary returned, or None
    lg_raised,   \* load_glossary_from_csv: the exception raised, or None
    lpc          \* load_glossary_from_csv: the position in the function

VARIABLES
    text,                 \* _translate, _language: text
    destination_language, \* _translate: destination_language
    source_language,      \* _translate: source_language
    dictionary,           \* _translate: dictionary
    formated_string,      \* _translate: formated_string
    limit,                \* _translate: limit
    row,                  \* _translate: the position of the loop of line 212
    warnings,             \* the kinds of warning issued by warnings.warn
    computed_lang,        \* _translate, _language: computed_lang
    params,               \* _translate, _language: params
    results,              \* _translate, _language: results
    returned,             \* the value returned by the call
    raised,               \* the exception that left the call, or None
    tpc,                  \* the position in _translate or _language
    remote,               \* what the service answers to each method
    sent,                 \* the requests posted by the calls, in order
    history               \* the outcomes of the calls that ended

VARIABLES
    cpc,          \* JSONRPCRequest.__init__: the position in the constructor
    client_state, \* GetClientState.id_number
    handshake     \* what the service answered to getClientState, or None

bvars == <<sentences, quality, index, before, after, jobs, heap, bpc>>
rvars == <<now, id_number, last_access, pc, wake, slept, tmp, reqId, outcome,
           calls, budget, posts>>
lvars == <<lg_source, lg_target, csv, lg_result, lg_raised, lpc>>
tvars == <<text, destination_language, source_language, dictionary,
           formated_string, limit, row, warnings, computed_lang, params,
           results, returned, raised, tpc, remote, sent, history>>
cvars == <<cpc, client_state, handshake>>
vars == <<bvars, rvars, lvars, tvars, cvars>>
\* What a step of the session, of the walk, of the loader leaves alone.
notSession == <<bvars, lvars, tvars, cvars>>
notBuild == <<rvars, lvars, tvars, cvars>>
notLoad == <<bvars, rvars, tvars, cvars>>

\* ------------------------------------------------------------ _build_jobs
\* A list shared instead of copied (the bug `before` in place of
\* `before.copy()` would be).
ListShare(h, ref) == [heap |-> h, ref |-> ref]

\* list.copy(): a new list with the same elements; the result is
\* [heap, ref], the heap with the copy added and the reference to it.
ListCopy(h, ref) == [heap |-> Append(h, h[ref]), ref |-> Len(h) + 1]

\* `before = []`: a new empty list.
ListNew(h) == [heap |-> Append(h, <<>>), ref |-> Len(h) + 1]

\* Lines 343-345: `if len(before) > 4: before.pop(0)` and then
\* `before.extend([sentences[index - 1]])`, both in place.
BeforeWindow(old, s, i) ==
    Append(IF Len(old) > 4 THEN Tail(old) ELSE old, At(s, i - 1))

\* The look-ahead with its bound off by one (`index > len(sentences) - 3`).
AfterWindowShort(s, i) ==
    IF i = 0
    THEN IF i + 1 < Len(s) THEN <<At(s, i + 1)>> ELSE <<>>
    ELSE IF i > Len(s) - 3 THEN <<>> ELSE <<At(s, i + 1)>>

\* Lines 338-341 and 346: the `after` of position i.  At index 0 an
\* IndexError of sentences[index + 1] selects the empty list.
AfterWindow(s, i) ==
    IF i = 0
    THEN IF i + 1 < Len(s) THEN <<At(s, i + 1)>> ELSE <<>>
    ELSE IF i > Len(s) - 2 THEN <<>> ELSE <<At(s, i + 1)>>

\* Lines 347-356: the job record; `quality` is attached only when non-empty.
MakeJob(sentence, q, aft, befRef) ==
    LET job == [kind |-> "default",
                preferred_num_beams |-> 4,
                raw_en_context_after |-> aft,
                raw_en_context_before |-> befRef,
                sentences |-> <<[text |-> sentence, id |-> 0, prefix |-> <<>>]>>]
    IN IF q # <<>> THEN job @@ [quality |-> q] ELSE job

\* The iteration with the IndexError of a one-sentence input escaping the
\* job construction: no job is appended for it.
BuildIterDropsOnly(st, s, q, i) ==
    LET fresh == ListNew(st.heap)
        h1 == IF i = 0
              THEN fresh.heap
              ELSE [st.heap EXCEPT ![st.before] = BeforeWindow(@, s, i)]
        bef == IF i = 0 THEN fresh.ref ELSE st.before
        aft == AfterWindow(s, i)
        cp == ListCopy(h1, bef)
    IN [before |-> bef,
        after |-> aft,
        jobs |-> IF i = 0 /\ Len(s) = 1
                 THEN st.jobs
                 ELSE Append(st.jobs, MakeJob(At(s, i), q, aft, cp.ref)),
        heap |-> cp.heap]

\* One iteration of the loop at lines 334-357 on the loop state
\* st = [before, after, jobs, heap], for position i of s.
BuildIter(st, s, q, i) ==
    LET fresh == ListNew(st.heap)
        h1 == IF i = 0
              THEN fresh.heap
              ELSE [st.heap EXCEPT ![st.before] = BeforeWindow(@, s, i)]
        bef == IF i = 0 THEN fresh.ref ELSE st.before
        aft == AfterWindow(s, i)
        cp == ListCopy(h1, bef)
    IN [before |-> bef,
        after |-> aft,
        jobs |-> Append(st.jobs, MakeJob(At(s, i), q, aft, cp.ref)),
        heap |-> cp.heap]

\* The loop state before the first iteration (line 333).
BuildStart == [before |-> 0, after |-> <<>>, jobs |-> <<>>, heap |-> <<>>]

\* Line 359: the jobs as the caller sees them, references followed.
JobsView(js, h) ==
    [k \in 1..Len(js) |->
        [js[k] EXCEPT !.raw_en_context_before = h[@]]]

RECURSIVE BuildLoop(_, _, _, _)
BuildLoop(st, s, q, i) ==
    IF i >= Len(s) THEN st ELSE BuildLoop(BuildIter(st, s, q, i), s, q, i + 1)

\* _build_jobs as a function of its arguments.
BuildJobs(s, q) ==
    LET st == BuildLoop(BuildStart, s, q, 0) IN JobsView(st.jobs, st.heap)

\* ---- the walk, one iteration per step
BuildInit ==
    /\ sentences \in SeqsUpTo(SentenceSet, MaxSentences)
    /\ quality \in QualitySet
    /\ index = 0
    /\ before = BuildStart.before
    /\ after = BuildStart.after
    /\ jobs = BuildStart.jobs
    /\ heap = BuildStart.heap
    /\ bpc = "loop"

BuildJobsIter ==
    /\ bpc = "loop"
    /\ index < Len(sentences)
    /\ LET st == BuildIter([before |-> before, after |-> after,
                            jobs |-> jobs, heap |-> heap],
                           sentences, quality, index)
       IN /\ before' = st.before
          /\ after' = st.after
          /\ jobs' = st.jobs
          /\ heap' = st.heap
    /\ index' = index + 1
    /\ UNCHANGED <<sentences, quality, bpc>>
    /\ UNCHANGED notBuild

BuildJobsReturn ==
    /\ bpc = "loop"
    /\ index >= Len(sentences)
    /\ bpc' = "done"
    /\ UNCHANGED <<sentences, quality, index, before, after, jobs, heap>>
    /\ UNCHANGED notBuild

BuildNext == BuildJobsIter \/ BuildJobsReturn

\* No walk in progress.
BuildQuiet ==
    /\ sentences = <<>>
    /\ quality = <<>>
    /\ index = 0
    /\ before = BuildStart.before
    /\ after = BuildStart.after
    /\ jobs = BuildStart.jobs
    /\ heap = BuildStart.heap
    /\ bpc = "done"

\* ------------------------------------------------ JSONRPCRequest (session)
\* Line 107: the minimum spacing, in the unit of time().
MinInterval == 5

\* The clock at the first call: time() is seconds since 1970, far more than
\* MinInterval past the initial last_access = 0.
Epoch == MinInterval + 2

\* The id the handshake (or its fallback, 1000 * 10000 + 1) left.
FirstId == 10000001

Callers == {1, 2}

\* How a post can end: a result (status 200), an RPC error (another
\* status), a body that is no JSON, or an exception of the transport.
Responses == {"result", "rpc_error", "bad_json"}

\* Line 94 and lines 87-93: the session after construction.
SessionInit ==
    /\ now = Epoch
    /\ id_number = FirstId
    /\ last_access = 0
    /\ pc = [c \in Callers |-> "idle"]
    /\ wake = [c \in Callers |-> 0]
    /\ slept = [c \in Callers |-> 0]
    /\ tmp = [c \in Callers |-> 0]
    /\ reqId = [c \in Callers |-> 0]
    /\ outcome = [c \in Callers |-> "none"]
    /\ calls = [c \in Callers |-> 0]
    /\ posts = <<>>

\* One caller, alone on the session.
OneCaller == budget = [c \in Callers |-> IF c = 1 THEN MaxCalls ELSE 0]

\* Two callers (threads) sharing the session.
TwoCallers == budget = [c \in Callers |-> MaxSharedCalls]

\* A caller enters send_jsonrpc (line 105).
SendCall(c) ==
    /\ pc[c] = "idle"
    /\ calls[c] < budget[c]
    /\ pc' = [pc EXCEPT ![c] = "check"]
    /\ calls' = [calls EXCEPT ![c] = @ + 1]
    /\ outcome' = [outcome EXCEPT ![c] = "none"]
    /\ UNCHANGED <<now, id_number, last_access, wake, slept, tmp,
                   reqId, posts, budget>>
    /\ UNCHANGED notSession

\* Line 107: `if time() - self.last_access < 5`.
SendCheck(c) ==
    /\ pc[c] = "check"
    /\ pc' = [pc EXCEPT ![c] =
                IF now - last_access < MinInterval THEN "distance" ELSE "dump"]
    /\ UNCHANGED <<now, id_number, last_access, wake, slept, tmp,
                   reqId, outcome, calls, posts, budget>>
    /\ UNCHANGED notSession

\* Line 109: the argument of sleep(), `max(distance, 0)`.
SleepArg(distance) == Max(distance, 0)

\* Lines 108-109: a second reading of time(), and the start of the sleep.
SendDistance(c) ==
    /\ pc[c] = "distance"
    /\ LET distance == MinInterval - (now - last_access)
       IN /\ slept' = [slept EXCEPT ![c] = SleepArg(distance)]
          /\ wake' = [wake EXCEPT ![c] = now + SleepArg(distance)]
    /\ pc' = [pc EXCEPT ![c] = "sleep"]
    /\ UNCHANGED <<now, id_number, last_access, tmp, reqId, outcome,
                   calls, posts, budget>>
    /\ UNCHANGED notSession

\* Line 109: sleep() returns once at least its argument has passed.
SendWake(c) ==
    /\ pc[c] = "sleep"
    /\ now >= wake[c]
    /\ pc' = [pc EXCEPT ![c] = "dump"]
    /\ UNCHANGED <<now, id_number, last_access, wake, slept, tmp,
                   reqId, outcome, calls, posts, budget>>
    /\ UNCHANGED notSession

\* Line 97, `self.id_number += 1`: the load of the attribute ...
DumpLoad(c) ==
    /\ pc[c] = "dump"
    /\ tmp' = [tmp EXCEPT ![c] = id_number]
    /\ pc' = [pc EXCEPT ![c] = "store"]
    /\ UNCHANGED <<now, id_number, last_access, wake, slept, reqId,
                   outcome, calls, posts, budget>>
    /\ UNCHANGED notSession

\* ... and the store of the sum.
DumpStore(c) ==
    /\ pc[c] = "store"
    /\ id_number' = tmp[c] + 1
    /\ pc' = [pc EXCEPT ![c] = "envelope"]
    /\ UNCHANGED <<now, last_access, wake, slept, tmp, reqId,
                   outcome, calls, posts, budget>>
    /\ UNCHANGED notSession

\* Lines 98-103: the envelope reads self.id_number again.
DumpEnvelope(c) ==
    /\ pc[c] = "envelope"
    /\ reqId' = [reqId EXCEPT ![c] = id_number]
    /\ pc' = [pc EXCEPT ![c] = "post"]
    /\ UNCHANGED <<now, id_number, last_access, wake, slept, tmp,
                   outcome, calls, posts, budget>>
    /\ UNCHANGED notSession

\* Line 111: session.post() hands the request to the transport.
PostSend(c) ==
    /\ pc[c] = "post"
    /\ posts' = Append(posts, [caller |-> c, time |-> now, id |-> reqId[c]])
    /\ pc' = [pc EXCEPT ![c] = "inflight"]
    /\ UNCHANGED <<now, id_number, last_access, wake, slept, tmp,
                   reqId, outcome, calls, budget>>
    /\ UNCHANGED notSession

\* A post that, when it raises, restarts the window as a response does.
PostRaiseStamping(c) ==
    /\ pc[c] = "inflight"
    /\ outcome' = [outcome EXCEPT ![c] = "transport_error"]
    /\ last_access' = now
    /\ pc' = [pc EXCEPT ![c] = "idle"]
    /\ UNCHANGED <<now, id_number, wake, slept, tmp,
                   reqId, calls, posts, budget>>
    /\ UNCHANGED notSession

\* A post that, when it raises, takes back the id it had drawn.
PostRaiseRollback(c) ==
    /\ pc[c] = "inflight"
    /\ outcome' = [outcome EXCEPT ![c] = "transport_error"]
    /\ id_number' = id_number - 1
    /\ pc' = [pc EXCEPT ![c] = "idle"]
    /\ UNCHANGED <<now, last_access, wake, slept, tmp,
                   reqId, calls, posts, budget>>
    /\ UNCHANGED notSession

\* Line 111: session.post() raises (connection refused, timeout): the
\* exception leaves send_jsonrpc before line 112.
PostRaise(c) ==
    /\ pc[c] = "inflight"
    /\ outcome' = [outcome EXCEPT ![c] = "transport_error"]
    /\ pc' = [pc EXCEPT ![c] = "idle"]
    /\ UNCHANGED <<now, id_number, last_access, wake, slept, tmp,
                   reqId, calls, posts, budget>>
    /\ UNCHANGED notSession

\* Lines 111-117: session.post() returns a response; last_access is set
\* and then the body and the status decide between result and exception.
PostReturn(c) ==
    /\ pc[c] = "inflight"
    /\ last_access' = now
    /\ \E r \in Responses : outcome' = [outcome EXCEPT ![c] = r]
    /\ pc' = [pc EXCEPT ![c] = "idle"]
    /\ UNCHANGED <<now, id_number, wake, slept, tmp, reqId, calls,
                   posts, budget>>
    /\ UNCHANGED notSession

\* Time passes.
Tick ==
    /\ now < Epoch + Horizon
    /\ now' = now + 1
    /\ UNCHANGED <<id_number, last_access, pc, wake, slept, tmp,
                   reqId, outcome, calls, posts, budget>>
    /\ UNCHANGED notSession

SendJsonrpc(c) ==
    \/ SendCall(c)
    \/ SendCheck(c)
    \/ SendDistance(c)
    \/ SendWake(c)
    \/ DumpLoad(c)
    \/ DumpStore(c)
    \/ DumpEnvelope(c)
    \/ PostSend(c)
    \/ PostRaise(c)
    \/ PostReturn(c)

RateNext == (\E c \in Callers : SendJsonrpc(c)) \/ Tick

\* ------------------------------------------------- load_glossary_from_csv
None == [kind |-> "None"]

\* raise DeeplTranslateException(code)
DeeplTranslateException(code) == [kind |-> "DeeplTranslateException", code |-> code]

\* Any exception that is no DeeplTranslateException.
OtherException(name) == [kind |-> name]

EN == <<"E", "N">>
FR == <<"F", "R">>
DE == <<"D", "E">>
ES == <<"E", "S">>
IT == <<"I", "T">>
PL == <<"P", "L">>
JA == <<"J", "A">>
NL == <<"N", "L">>
KO == <<"K", "O">>

\* Line 122.
glossary_supported_languages == {DE, EN, ES, FR, JA, IT, PL, NL}

\* Lines 174-189: the languages each source may be combined with, and the
\* code raised otherwise, in the order of the checks.
Combinations ==
    <<[source |-> EN, targets |-> {FR, DE, ES, IT, PL, JA, NL}, code |-> 5002],
      [source |-> FR, targets |-> {EN, DE, ES, IT, PL, JA, NL}, code |-> 5003],
      [source |-> DE, targets |-> {EN, FR, ES, IT, PL, JA, NL}, code |-> 5004],
      [source |-> ES, targets |-> {EN, FR, DE, IT, PL, JA, NL}, code |-> 5005],
      [source |-> IT, targets |-> {EN, FR, DE, ES, PL, JA, NL}, code |-> 5006],
      [source |-> PL, targets |-> {EN, FR, DE, ES, IT, JA, NL}, code |-> 5007],
      [source |-> JA, targets |-> {EN, FR, DE, ES, IT, PL, NL}, code |-> 5008],
      [source |-> NL, targets |-> {EN, FR, DE, ES, IT, PL, JA}, code |-> 5009]>>

\* Lines 174-189: the code of the first combination check that fails, 0
\* when all pass.
CombinationError(source, target) ==
    LET failing == {k \in 1..Len(Combinations) :
                       /\ source = Combinations[k].source
                       /\ target \notin Combinations[k].targets}
    IN IF failing = {} THEN 0
       ELSE Combinations[CHOOSE k \in failing : \A j \in failing : k <= j].code

\* The language checks with the combination check placed first (lines
\* 174-189 moved above line 168).
LanguageErrorCombinationFirst(source, target) ==
    IF CombinationError(source, target) # 0
    THEN CombinationError(source, target)
    ELSE IF source \notin glossary_supported_languages
            \/ target \notin glossary_supported_languages
    THEN 5000
    ELSE IF source = target THEN 5001
    ELSE 0

\* Lines 168-171: the code raised by the language checks, 0 when they pass.
LanguageError(source, target) ==
    IF source \notin glossary_supported_languages
       \/ target \notin glossary_supported_languages
    THEN 5000
    ELSE IF source = target THEN 5001
    ELSE 0

\* The languages a caller passes: the supported ones, one that DeepL's
\* glossaries do not know, and lower-case spellings.
LanguageInputs ==
    glossary_supported_languages \cup {KO, <<"e", "n">>, <<"f", "r">>, <<"k", "o">>}

\* The files a caller passes: readable or not, with a header and rows of
\* terms, one term per column.
CsvInputs ==
    [readable : BOOLEAN,
     columns : {<<EN, FR>>, <<<<"e", "n">>, <<"f", "r">>>>, <<DE, JA>>},
     rows : {<<>>,
             <<<<<<"b">>, <<"x">>>>, <<<<"a">>, <<"y">>>>>>,
             <<<<<<"a">>, <<"x">>>>, <<<<"a">>, <<"y">>>>>>}]

\* The position of a column in the header, 0 when absent.
ColumnOf(columns, name) ==
    IF \E k \in 1..Len(columns) : columns[k] = name
    THEN CHOOSE k \in 1..Len(columns) : columns[k] = name
    ELSE 0

\* Line 192: sort_values(by=[source_language], ascending=True), as the
\* stable insertion of each row behind the rows not greater than it.
RECURSIVE SortRows(_, _)
SortRows(rows, col) ==
    IF rows = <<>> THEN <<>>
    ELSE LET last == rows[Len(rows)]
             rest == SortRows(SubSeq(rows, 1, Len(rows) - 1), col)
             keep == {k \in 1..Len(rest) : ~StrLess(last[col], rest[k][col])}
             n == Cardinality(keep)
         IN SubSeq(rest, 1, n) \o <<last>> \o SubSeq(rest, n + 1, Len(rest))

\* Line 196: drop_duplicates(subset=[source_language], keep='last').
DropDuplicates(rows, col) ==
    LET kept == {k \in 1..Len(rows) :
                    \A j \in (k + 1)..Len(rows) : rows[j][col] # rows[k][col]}
        F[k \in 0..Len(rows)] ==
            IF k = 0 THEN <<>>
            ELSE IF k \in kept THEN Append(F[k - 1], rows[k]) ELSE F[k - 1]
    IN F[Len(rows)]

\* BaseTranslator.FormatedGlossary(csv, source_language, target_language).
FormatedGlossary(df, source, target) ==
    [kind |-> "FormatedGlossary", dataframe |-> df,
     source_language |-> source, target_language |-> target]

LoadInit ==
    /\ lg_source \in LanguageInputs
    /\ lg_target \in LanguageInputs
    /\ csv \in CsvInputs
    /\ lg_result = None
    /\ lg_raised = None
    /\ lpc = "languages"

LoadQuiet ==
    /\ lg_source = EN
    /\ lg_target = FR
    /\ csv = [readable |-> TRUE, columns |-> <<EN, FR>>, rows |-> <<>>]
    /\ lg_result = None
    /\ lg_raised = None
    /\ lpc = "done"

\* Lines 165-171: upper-case both languages and check them.
LoadLanguages ==
    /\ lpc = "languages"
    /\ lg_source' = Upper(lg_source)
    /\ lg_target' = Upper(lg_target)
    /\ LET code == LanguageError(Upper(lg_source), Upper(lg_target))
       IN IF code # 0
          THEN lg_raised' = DeeplTranslateException(code) /\ lpc' = "raised"
          ELSE lg_raised' = lg_raised /\ lpc' = "read"
    /\ UNCHANGED <<csv, lg_result>>
    /\ UNCHANGED notLoad

\* Line 172: pd.read_csv, which raises when the file cannot be read.
LoadReadCsv ==
    /\ lpc = "read"
    /\ IF csv.readable
       THEN lg_raised' = lg_raised /\ lpc' = "combinations"
       ELSE lg_raised' = OtherException("OSError") /\ lpc' = "raised"
    /\ UNCHANGED <<lg_source, lg_target, csv, lg_result>>
    /\ UNCHANGED notLoad

\* Lines 174-189: the eight combination checks.
LoadCombinations ==
    /\ lpc = "combinations"
    /\ LET code == CombinationError(lg_source, lg_target)
       IN IF code # 0
          THEN lg_raised' = DeeplTranslateException(code) /\ lpc' = "raised"
          ELSE lg_raised' = lg_raised /\ lpc' = "sort"
    /\ UNCHANGED <<lg_source, lg_target, csv, lg_result>>
    /\ UNCHANGED notLoad

\* Lines 190-199: upper-case the header, sort by the source column, drop
\* duplicate source terms, and return the glossary; a header without the
\* source language is a KeyError, raised again as 5010.
LoadSort ==
    /\ lpc = "sort"
    /\ LET columns == [k \in 1..Len(csv.columns) |-> Upper(csv.columns[k])]
           col == ColumnOf(columns, lg_source)
           df == [columns |-> columns,
                  rows |-> DropDuplicates(SortRows(csv.rows, col), col)]
       IN IF col = 0
          THEN /\ lg_raised' = DeeplTranslateException(5010)
               /\ lpc' = "raised"
               /\ csv' = [csv EXCEPT !.columns = columns]
               /\ lg_result' = lg_result
          ELSE /\ lg_raised' = lg_raised
               /\ lpc' = "done"
               /\ csv' = [csv EXCEPT !.columns = columns, !.rows = df.rows]
               /\ lg_result' = FormatedGlossary(df, lg_source, lg_target)
    /\ UNCHANGED <<lg_source, lg_target>>
    /\ UNCHANGED notLoad

LoadNext == LoadLanguages \/ LoadReadCsv \/ LoadCombinations \/ LoadSort

\* -------------------------------------------- send_jsonrpc, as one step
\* Python values of other types than the slot's usual one.
NoneStr == <<"None">>
Str(v) == [kind |-> "str", value |-> v]

\* What the service can do with a post: refuse the connection, answer
\* with a result (status 200), answer with an error (another status), or
\* answer with a body that is no JSON.
Refused == [kind |-> "refused"]
BadJson == [kind |-> "bad_json"]
RpcError(code) == [kind |-> "rpc_error", code |-> code]
Result(payload) == [kind |-> "result", result |-> payload]

\* A limiter that drops the call instead of sleeping: within MinInterval
\* of the last response nothing is posted and None is returned.
SendOutcomeDropping(t, la, idn, answer, delay) ==
    IF t - la < MinInterval
    THEN [posted |-> FALSE, id |-> idn, at |-> t, now |-> t, last_access |-> la,
          result |-> None, raised |-> None]
    ELSE [posted |-> TRUE, id |-> idn + 1, at |-> t, now |-> t + delay,
          last_access |-> IF answer.kind = "refused" THEN la ELSE t + delay,
          result |-> IF answer.kind = "result" THEN answer.result ELSE None,
          raised |->
              CASE answer.kind = "refused" -> OtherException("ConnectionError")
                [] answer.kind = "bad_json" -> OtherException("JSONDecodeError")
                [] answer.kind = "rpc_error" -> DeeplTranslateException(answer.code)
                [] OTHER -> None]

\* A send_jsonrpc that swallows the error of a response with another
\* status than 200 and returns None in its place.
SendOutcomeSwallowing(t, la, idn, answer, delay) ==
    LET wait == IF t - la < MinInterval
                THEN SleepArg(MinInterval - (t - la))
                ELSE 0
        at == t + wait
        back == at + delay
    IN [posted |-> TRUE, id |-> idn + 1, at |-> at, now |-> back,
        last_access |-> IF answer.kind = "refused" THEN la ELSE back,
        result |-> IF answer.kind = "result" THEN answer.result ELSE None,
        raised |->
            CASE answer.kind = "refused" -> OtherException("ConnectionError")
              [] answer.kind = "bad_json" -> OtherException("JSONDecodeError")
              [] OTHER -> None]

\* Lines 105-117 for a caller that is alone on the session: called at
\* time t with last_access = la and id_number = idn, the post answered by
\* `answer` after `delay`.  The result names the id sent, the time of the
\* post, the time of return, the new last_access, and the value returned
\* or the exception raised.
SendOutcome(t, la, idn, answer, delay) ==
    LET wait == IF t - la < MinInterval
                THEN SleepArg(MinInterval - (t - la))
                ELSE 0
        at == t + wait
        back == at + delay
    IN [posted |-> TRUE, id |-> idn + 1, at |-> at, now |-> back,
        last_access |-> IF answer.kind = "refused" THEN la ELSE back,
        result |-> IF answer.kind = "result" THEN answer.result ELSE None,
        raised |->
            CASE answer.kind = "refused" -> OtherException("ConnectionError")
              [] answer.kind = "bad_json" -> OtherException("JSONDecodeError")
              [] answer.kind = "rpc_error" -> DeeplTranslateException(answer.code)
              [] OTHER -> None]

\* The effect of that call on the session, and the request in the log.
SessionAfter(method, prm, out) ==
    /\ now' = out.now
    /\ id_number' = out.id
    /\ last_access' = out.last_access
    /\ posts' = IF out.posted
                THEN Append(posts, [caller |-> 1, time |-> out.at, id |-> out.id])
                ELSE posts
    /\ sent' = IF out.posted
               THEN Append(sent, [method |-> method, id |-> out.id,
                                  time |-> out.at, params |-> prm,
                                  call |-> Len(history) + 1])
               ELSE sent
    /\ UNCHANGED <<pc, wake, slept, tmp, reqId, outcome, calls, budget>>

\* ------------------------------------------ JSONRPCRequest.__init__
\* Python's None in a slot that otherwise holds an integer.
NoneInt == -1

\* Lines 58 and 92: the range of randint(1000, 9999) and the factor.
RandLow == 1000
RandHigh == 9999
RandFactor == 10000

\* The values of randint that the model draws: both ends of the range and
\* their neighbours.
RandSamples == {RandLow, RandLow + 1, RandHigh - 1, RandHigh}

\* The bodies a handshake response can carry: no JSON at all, a JSON list,
\* a JSON object without "id", or a JSON object whose "id" is a number or
\* null.
NotJson == [kind |-> "not_json"]
JsonList == [kind |-> "list"]
JsonObject == [kind |-> "object"]
JsonObjectWithId(n) == [kind |-> "object", id |-> n]

\* A response of the handshake: a status and a body.
Response(status, body) == [kind |-> "response", status |-> status, body |-> body]

\* What the service can do with the handshake whose request carries
\* `request_id`: refuse the connection, or answer with status 200 or 429
\* and any body; the "id" of a body echoes the request, is another number,
\* or is null.
HandshakeAnswers(request_id) ==
    {Refused}
    \cup {Response(st, b) :
             st \in {200, 429},
             b \in {NotJson, JsonList, JsonObject}
                   \cup {JsonObjectWithId(n) : n \in {request_id, 7, NoneInt}}}

\* Lines 73-79, GetClientState.get, after the post of line 77: the id of
\* the body, or the exception of json() or of the subscript.  The status
\* of the response is not read.
ClientStateGet(answer) ==
    IF answer.kind = "refused"
    THEN [raised |-> OtherException("ConnectionError"), id |-> NoneInt]
    ELSE IF answer.body.kind = "not_json"
    THEN [raised |-> OtherException("JSONDecodeError"), id |-> NoneInt]
    ELSE IF answer.body.kind = "list"
    THEN [raised |-> OtherException("TypeError"), id |-> NoneInt]
    ELSE IF "id" \notin DOMAIN answer.body
    THEN [raised |-> OtherException("KeyError"), id |-> NoneInt]
    ELSE [raised |-> None, id |-> answer.body.id]

\* The session before JSONRPCRequest.__init__ has run: no attribute is
\* bound yet.
SessionUnbuilt ==
    /\ now = Epoch
    /\ id_number = NoneInt
    /\ last_access = NoneInt
    /\ pc = [c \in Callers |-> "idle"]
    /\ wake = [c \in Callers |-> 0]
    /\ slept = [c \in Callers |-> 0]
    /\ tmp = [c \in Callers |-> 0]
    /\ reqId = [c \in Callers |-> 0]
    /\ outcome = [c \in Callers |-> "none"]
    /\ calls = [c \in Callers |-> 0]
    /\ posts = <<>>

ConstructInit ==
    /\ cpc = "new"
    /\ client_state = NoneInt
    /\ handshake = None

\* A session whose construction ended in the fallback of line 92 with
\* randint = RandLow: id_number = FirstId.
ConstructQuiet ==
    /\ cpc = "ready"
    /\ client_state = RandLow * RandFactor + 1
    /\ handshake = Refused

\* Lines 88 and 57-59: GetClientState(request).
ClientStateNew ==
    /\ cpc = "new"
    /\ \E k \in RandSamples : client_state' = k * RandFactor
    /\ cpc' = "get"
    /\ UNCHANGED handshake
    /\ UNCHANGED <<bvars, rvars, lvars, tvars>>

\* Lines 89-91 and 73-79: self.client_state.get() posts the envelope of
\* dump() (lines 61-71, id_number += 1) and either binds id_number to the
\* "id" of the response or leaves with an exception.
ConstructGet ==
    /\ cpc = "get"
    /\ client_state' = client_state + 1
    /\ \E answer \in HandshakeAnswers(client_state + 1) :
          /\ handshake' = answer
          /\ IF ClientStateGet(answer).raised = None
             THEN id_number' = ClientStateGet(answer).id /\ cpc' = "session"
             ELSE UNCHANGED id_number /\ cpc' = "except"
    /\ UNCHANGED <<now, last_access, pc, wake, slept, tmp, reqId, outcome,
                   calls, budget, posts>>
    /\ UNCHANGED <<bvars, lvars, tvars>>

\* Lines 91-92: `except Exception`, the locally generated id.
ConstructFallback ==
    /\ cpc = "except"
    /\ \E k \in RandSamples : id_number' = (k * RandFactor) + 1
    /\ cpc' = "session"
    /\ UNCHANGED <<now, last_access, pc, wake, slept, tmp, reqId, outcome,
                   calls, budget, posts>>
    /\ UNCHANGED <<client_state, handshake>>
    /\ UNCHANGED <<bvars, lvars, tvars>>

\* Lines 93-94: the session and last_access = 0; the constructor returns.
ConstructSession ==
    /\ cpc = "session"
    /\ last_access' = 0
    /\ cpc' = "ready"
    /\ UNCHANGED <<now, id_number, pc, wake, slept, tmp, reqId, outcome,
                   calls, budget, posts>>
    /\ UNCHANGED <<client_state, handshake>>
    /\ UNCHANGED <<bvars, lvars, tvars>>

\* Lines 96-97: the first dump() on the new session, `self.id_number += 1`,
\* a TypeError when id_number is None.
ConstructFirstDump ==
    /\ cpc = "ready"
    /\ IF id_number = NoneInt
       THEN cpc' = "type_error" /\ UNCHANGED id_number
       ELSE cpc' = "dumped" /\ id_number' = id_number + 1
    /\ UNCHANGED <<now, last_access, pc, wake, slept, tmp, reqId, outcome,
                   calls, budget, posts>>
    /\ UNCHANGED <<client_state, handshake>>
    /\ UNCHANGED <<bvars, lvars, tvars>>

ConstructNext ==
    \/ ClientStateNew
    \/ ConstructGet
    \/ ConstructFallback
    \/ ConstructSession
    \/ ConstructFirstDump

\* --------------------------------------------------- _split_into_sentences
\* Line 124: the default preferred_langs.
user_preferred_langs == {EN, FR}

\* str.strip() for blanks.
RECURSIVE LStrip(_)
LStrip(str) ==
    IF str # <<>> /\ str[1] = " " THEN LStrip(Tail(str)) ELSE str

RECURSIVE RStrip(_)
RStrip(str) ==
    IF str # <<>> /\ str[Len(str)] = " "
    THEN RStrip(SubSeq(str, 1, Len(str) - 1))
    ELSE str

Strip(str) == RStrip(LStrip(str))

\* Line 24: the characters of the look-behind of SENTENCES_SPLITTING_REGEX,
\* '(?<=[.!:?]) +'.
SentenceEnd == {".", "!", ":", "?"}

\* The first position of txt at or after k that holds no blank.
RECURSIVE SkipBlanks(_, _)
SkipBlanks(txt, k) ==
    IF k <= Len(txt) /\ txt[k] = " " THEN SkipBlanks(txt, k + 1) ELSE k

\* Lines 24 and 139, SENTENCES_SPLITTING_REGEX.split(text): the text cut
\* at every run of blanks that follows a sentence-ending character.
RECURSIVE RegexSplit(_)
RegexSplit(txt) ==
    LET cuts == {k \in 2..Len(txt) : txt[k] = " " /\ txt[k - 1] \in SentenceEnd}
    IN IF cuts = {} THEN <<txt>>
       ELSE LET k == CHOOSE c \in cuts : \A d \in cuts : c <= d
            IN <<SubSeq(txt, 1, k - 1)>>
               \o RegexSplit(SubSeq(txt, SkipBlanks(txt, k), Len(txt)))

\* Lines 141-147: the params of LMT_split_into_sentences.  (The local
\* split of line 139 is an expression whose value is dropped.)
SplitParams(txt, dest, source) ==
    [texts |-> <<Strip(txt)>>,
     lang |-> [lang_user_selected |-> source,
               user_preferred_langs |-> user_preferred_langs \cup {dest}]]

\* Line 150: the pair returned from the response, or the exception of
\* subscripting a response that is None.
SplitReturn(out) ==
    IF out.raised # None THEN [raised |-> out.raised]
    ELSE IF out.result = None THEN [raised |-> OtherException("TypeError")]
    ELSE [raised |-> None,
          sentences |-> out.result.splitted_texts[1],
          lang |-> out.result.lang]

\* ------------------------------------------------------ glossary matching
\* Line 210.
TermLimit == 10

\* Line 215: the target of the first row whose source term is `word`.
TargetOf(df, scol, tcol, word) ==
    LET first == CHOOSE k \in 1..Len(df.rows) :
                    /\ df.rows[k][scol] = word
                    /\ \A j \in 1..(k - 1) : df.rows[j][scol] # word
    IN df.rows[first][tcol]

\* The body of the loop with the count of line 217 forgotten.
GlossaryStepUncounted(st, word, target, txt) ==
    LET matched == IsSubstring(word, txt) /\ st.limit > 0
        clean == ~HasChar("\"", target) /\ ~HasChar("\"", word)
        lim == st.limit
        warned == IF matched /\ ~clean
                  THEN st.warnings \cup {"quotes"}
                  ELSE st.warnings
    IN [limit |-> lim,
        formated_string |->
            IF matched /\ clean
            THEN st.formated_string \o word \o <<"\t">> \o target \o <<"\n">>
            ELSE st.formated_string,
        warnings |-> IF IsSubstring(word, txt) /\ lim = 0
                     THEN warned \cup {"limit"}
                     ELSE warned]

\* Lines 213-224: the body of the loop for one source term, on the state
\* st = [limit, formated_string, warnings].
GlossaryStep(st, word, target, txt) ==
    LET matched == IsSubstring(word, txt) /\ st.limit > 0
        clean == ~HasChar("\"", target) /\ ~HasChar("\"", word)
        lim == IF matched /\ clean THEN st.limit - 1 ELSE st.limit
        warned == IF matched /\ ~clean
                  THEN st.warnings \cup {"quotes"}
                  ELSE st.warnings
    IN [limit |-> lim,
        formated_string |->
            IF matched /\ clean
            THEN st.formated_string \o word \o <<"\t">> \o target \o <<"\n">>
            ELSE st.formated_string,
        warnings |-> IF IsSubstring(word, txt) /\ lim = 0
                     THEN warned \cup {"limit"}
                     ELSE warned]

\* str.replace(pat, ''): every occurrence of pat removed, left to right.
RECURSIVE Remove(_, _)
Remove(str, pat) ==
    IF Len(str) < Len(pat) THEN str
    ELSE IF SubSeq(str, 1, Len(pat)) = pat
    THEN Remove(SubSeq(str, Len(pat) + 1, Len(str)), pat)
    ELSE <<str[1]>> \o Remove(Tail(str), pat)

\* Lines 225-228: the empty quoted pair removed, the last newline cut.
Trimmed(fs) ==
    IF fs = <<>> THEN fs
    ELSE LET cut == Remove(fs, <<"\"", "\t", "\"", "\n">>)
         IN IF cut[Len(cut)] = "\n" THEN SubSeq(cut, 1, Len(cut) - 1) ELSE cut

\* ------------------------------------------------- the request and result
\* str.count(ch)
Count(str, ch) == Cardinality({k \in 1..Len(str) : str[k] = ch})

RECURSIVE SumCounts(_, _)
SumCounts(ss, ch) ==
    IF ss = <<>> THEN 0 ELSE Count(ss[1], ch) + SumCounts(Tail(ss), ch)

\* Lines 236 and 286.
ICount(ss) == 1 + SumCounts(ss, "i")

\* Lines 237 and 287: int(time() * 10) * 100 + 1000.
TsAt(t) == (t * 10) * 100 + 1000

\* A timestamp that is moved by the count without the remainder.
TimestampUnrounded(ts, ss) == ts + ICount(ss)

\* Lines 256 and 298.
Timestamp(ts, ss) == ts + (ICount(ss) - (ts % ICount(ss)))

\* Lines 239-257 and 263: the params of LMT_handle_jobs in _translate.
TranslateParams(js, ss, source, dest, formality, termbase, t) ==
    [jobs |-> js,
     lang |-> [preference |-> [weight |-> <<>>, default |-> "default"],
               source_lang_computed |-> source,
               target_lang |-> dest,
               source_lang_user_selected |-> source],
     priority |-> 1,
     commonJobParams |-> [browserType |-> 1,
                          formality |-> formality,
                          mode |-> "translate",
                          termbase |-> [dictionary |-> termbase]],
     timestamp |-> Timestamp(TsAt(t), ss)]

\* Lines 290-305: the params of LMT_handle_jobs in _language.
LanguageParams(js, ss, computed, t) ==
    [jobs |-> js,
     lang |-> IF computed # NoneStr
              THEN [preference |-> [weight |-> <<>>, default |-> "default"],
                    target_lang |-> FR,
                    user_preferred_langs |-> <<FR, computed>>,
                    source_lang_computed |-> computed]
              ELSE [preference |-> [weight |-> <<>>, default |-> "default"],
                    target_lang |-> FR,
                    user_preferred_langs |-> <<FR>>,
                    source_lang_user_selected |-> <<"A", "U", "T", "O">>],
     priority |-> 1,
     timestamp |-> Timestamp(TsAt(t), ss)]

\* Line 274: obj["beams"][0]["sentences"][0]["text"].
TopText(obj) == obj.beams[1].sentences[1].text

\* " ".join(parts)
RECURSIVE JoinSpace(_)
JoinSpace(parts) ==
    IF parts = <<>> THEN <<>>
    ELSE IF Len(parts) = 1 THEN parts[1]
    ELSE parts[1] \o <<" ">> \o JoinSpace(Tail(parts))

\* The top texts of the translations, the empty ones kept.
RECURSIVE TopTextsUnfiltered(_)
TopTextsUnfiltered(translations) ==
    IF translations = <<>> THEN <<>>
    ELSE <<TopText(translations[1])>> \o TopTextsUnfiltered(Tail(translations))

\* Line 274: the generator, the top text of each translation that has a
\* non-empty one, in the order of the response.
RECURSIVE TopTexts(_)
TopTexts(translations) ==
    IF translations = <<>> THEN <<>>
    ELSE IF TopText(translations[1]) # <<>>
    THEN <<TopText(translations[1])>> \o TopTexts(Tail(translations))
    ELSE TopTexts(Tail(translations))

\* Lines 267-274: the value _translate returns for `res`; a bare return
\* (None) when res is None.
TranslateReturn(res, source) ==
    IF res = None THEN None
    ELSE [kind |-> "tuple",
          detected |-> IF "source_lang" \in DOMAIN res
                       THEN res.source_lang ELSE source,
          text |-> JoinSpace(TopTexts(res.translations))]

\* Lines 309-310: the value _language returns for `res`; a bare return
\* (None) when res is None.
LanguageReturn(res) ==
    IF res = None THEN None ELSE Str(res.source_lang)

\* ------------------------------------------------ the inputs of the calls
Letter(k) == Alphabet[k + 1]

\* The k-th glossary row: the source term is the k-th letter and the
\* target the letter doubled; row qs has a quote in its source term, row
\* qt in its target term.
GlossaryRow(k, qs, qt) ==
    <<IF k = qs THEN <<Letter(k), "\"">> ELSE <<Letter(k)>>,
      IF k = qt /\ k # qs
      THEN <<"\"", Letter(k), Letter(k)>>
      ELSE <<Letter(k), Letter(k)>>>>

\* A glossary EN -> FR of n rows, as load_glossary_from_csv returns it:
\* sorted by source term, no source term twice.
Glossary(n, qs, qt) ==
    FormatedGlossary([columns |-> <<EN, FR>>,
                      rows |-> [k \in 1..n |-> GlossaryRow(k, qs, qt)]],
                     EN, FR)

\* A text in which every source term occurs (a"b"c"...), and one in which
\* every other term does (a c e ...).
TextAll ==
    [j \in 1..(2 * (MaxTerms + 1)) |->
        IF j % 2 = 1 THEN Letter((j + 1) \div 2) ELSE "\""]
TextOdd == [j \in 1..MaxTerms |-> IF j % 2 = 1 THEN Letter(j) ELSE " "]
TextPlain == <<" ", "H", "i", ".", " ", "i", "t", "?">>

Translation(t) ==
    [beams |-> <<[sentences |-> <<[text |-> t], [text |-> <<"z">>]>>],
                 [sentences |-> <<[text |-> <<"y">>]>>]>>]

Translations == {Translation(<<>>), Translation(<<"A">>), Translation(<<"B", "c">>)}

SplitOk ==
    Result([splitted_texts |-> <<<<<<"H", "i", ".">>, <<"i", "t", "?">>>>>>,
            lang |-> EN])

\* Three sentences with six letters "i" between them.
Iii == <<<<"i", "i", "i">>, <<"H", "i", ".">>, <<"i", "i">>>>

SplitAnswers ==
    {Refused, RpcError(1042911), BadJson, Result(None), SplitOk}
    \cup {Result([splitted_texts |-> <<ss>>, lang |-> l]) :
             ss \in {<<>>, <<<<"i", "t", "?">>>>, Iii}, l \in {EN, NoneStr}}

JobsOk ==
    Result([source_lang |-> EN,
            translations |-> <<Translation(<<"A">>), Translation(<<"B", "c">>)>>])

JobsFew == {Refused, RpcError(1042912), JobsOk}

JobsAnswers ==
    {Refused, RpcError(1042912), BadJson, Result(None),
     Result([translations |-> <<Translation(<<"A">>)>>])}
    \cup {Result([source_lang |-> l, translations |-> trs]) :
             l \in {EN}, trs \in SeqsUpTo(Translations, MaxTranslations)}

\* What the service answers to the two methods, the same at every call.
RemoteScripts ==
    {[split |-> a, jobs |-> b] : a \in SplitAnswers, b \in JobsFew}
    \cup {[split |-> SplitOk, jobs |-> b] : b \in JobsAnswers}

RemoteFew ==
    {[split |-> Refused, jobs |-> JobsOk],
     [split |-> SplitOk, jobs |-> Refused],
     [split |-> SplitOk, jobs |-> JobsOk]}

\* The calls of _translate that are made: large glossaries with a few
\* answers of the service, or a few glossaries (none, the empty string, a
\* small one) with every answer.
TranslateInputs ==
    \/ /\ dictionary \in {Glossary(n, qs, qt) :
                             n \in 0..MaxTerms, qs \in {0, 2, 11}, qt \in {0, 5, 12}}
       /\ text \in {TextAll, TextOdd}
       /\ \E pair \in {<<EN, FR>>, <<<<"e", "n">>, <<"f", "r">>>>} :
              /\ source_language = pair[1]
              /\ destination_language = pair[2]
       /\ remote \in RemoteFew
    \/ /\ dictionary \in {None, Str(<<>>), Glossary(2, 0, 0)}
       /\ text = TextPlain
       /\ source_language \in {EN, <<"a", "u", "t", "o">>}
       /\ destination_language \in {FR, DE}
       /\ remote \in RemoteScripts

\* The locals of a call before its first line.
CallStart ==
    /\ formated_string = <<>>
    /\ limit = TermLimit
    /\ row = 0
    /\ warnings = {}
    /\ computed_lang = NoneStr
    /\ params = None
    /\ results = None
    /\ returned = None
    /\ raised = None
    /\ sent = <<>>
    /\ history = <<>>

TranslateInit == TranslateInputs /\ CallStart /\ tpc = "start"

LanguageInit ==
    /\ text = TextPlain
    /\ remote \in RemoteScripts
    /\ source_language = <<"A", "U", "T", "O">>
    /\ destination_language = EN
    /\ dictionary = Str(<<>>)
    /\ CallStart
    /\ tpc = "idle"

TranslateQuiet ==
    /\ text = <<>>
    /\ remote = [split |-> Refused, jobs |-> Refused]
    /\ source_language = EN
    /\ destination_language = FR
    /\ dictionary = Str(<<>>)
    /\ CallStart
    /\ tpc = "idle"

\* ------------------------------------------------------------- _translate
\* The call ends with exception e.
Raise(e) ==
    /\ raised' = e
    /\ tpc' = "raised"
    /\ history' = Append(history, [returned |-> None, raised |-> e])

\* A test of the glossary's languages that looks at the source only.
GlossaryMismatchSourceOnly(source, dest, glossary) ==
    ~IsSubstring(Upper(source), glossary.source_language)

\* Line 208: `source_language.upper() not in dictionary.source_language or
\* destination_language.upper() not in dictionary.target_language`, `in`
\* between two strings.
GlossaryMismatch(source, dest, glossary) ==
    \/ ~IsSubstring(Upper(source), glossary.source_language)
    \/ ~IsSubstring(Upper(dest), glossary.target_language)

\* Lines 204-212: the locals, the test of the glossary's languages and
\* the column of the source terms.
TranslateBegin ==
    /\ tpc = "start"
    /\ IF dictionary = Str(<<>>)
       THEN tpc' = "split" /\ UNCHANGED <<raised, history>>
       ELSE IF dictionary = None
       THEN Raise(OtherException("AttributeError"))
       ELSE IF GlossaryMismatch(source_language, destination_language, dictionary)
       THEN Raise(DeeplTranslateException(5011))
       ELSE IF ColumnOf(dictionary.dataframe.columns, Upper(source_language)) = 0
       THEN Raise(OtherException("KeyError"))
       ELSE tpc' = "glossary" /\ UNCHANGED <<raised, history>>
    /\ formated_string' = <<>>
    /\ limit' = TermLimit
    /\ row' = 1
    /\ UNCHANGED <<text, destination_language, source_language, dictionary,
                   warnings, computed_lang, params, results, returned, remote,
                   sent>>
    /\ UNCHANGED <<bvars, rvars, lvars, cvars>>

\* Lines 212-224: one source term of the glossary.
TranslateGlossaryRow ==
    /\ tpc = "glossary"
    /\ row <= Len(dictionary.dataframe.rows)
    /\ LET df == dictionary.dataframe
           scol == ColumnOf(df.columns, Upper(source_language))
           tcol == ColumnOf(df.columns, Upper(dictionary.target_language))
           word == df.rows[row][scol]
       IN IF IsSubstring(word, text) /\ limit > 0 /\ tcol = 0
          THEN /\ Raise(OtherException("KeyError"))
               /\ UNCHANGED <<limit, formated_string, warnings, row>>
          ELSE LET st == GlossaryStep(
                            [limit |-> limit,
                             formated_string |-> formated_string,
                             warnings |-> warnings],
                            word,
                            IF tcol = 0 THEN <<>> ELSE TargetOf(df, scol, tcol, word),
                            text)
               IN /\ limit' = st.limit
                  /\ formated_string' = st.formated_string
                  /\ warnings' = st.warnings
                  /\ row' = row + 1
                  /\ UNCHANGED <<raised, tpc, history>>
    /\ UNCHANGED <<text, destination_language, source_language, dictionary,
                   computed_lang, params, results, returned, remote, sent>>
    /\ UNCHANGED <<bvars, rvars, lvars, cvars>>

\* Lines 225-228: the end of the loop and the trimming of the termbase.
TranslateGlossaryEnd ==
    /\ tpc = "glossary"
    /\ row > Len(dictionary.dataframe.rows)
    /\ formated_string' = Trimmed(formated_string)
    /\ tpc' = "split"
    /\ UNCHANGED <<text, destination_language, source_language, dictionary,
                   limit, row, warnings, computed_lang, params, results,
                   returned, raised, remote, sent, history>>
    /\ UNCHANGED <<bvars, rvars, lvars, cvars>>

\* Line 231: _split_into_sentences, with its call of send_jsonrpc.
TranslateSplit ==
    /\ tpc = "split"
    /\ \E delay \in 0..MaxDelay :
          LET prm == SplitParams(text, destination_language, source_language)
              out == SendOutcome(now, last_access, id_number, remote.split, delay)
              ret == SplitReturn(out)
          IN /\ SessionAfter("LMT_split_into_sentences", prm, out)
             /\ IF ret.raised # None
                THEN Raise(ret.raised) /\ UNCHANGED <<sentences, computed_lang>>
                ELSE /\ sentences' = ret.sentences
                     /\ computed_lang' = ret.lang
                     /\ tpc' = "build"
                     /\ UNCHANGED <<raised, history>>
    /\ UNCHANGED <<text, destination_language, source_language, dictionary,
                   formated_string, limit, row, warnings, params, results,
                   returned, remote>>
    /\ UNCHANGED <<quality, index, before, after, jobs, heap, bpc>>
    /\ UNCHANGED <<lvars, cvars>>

\* Lines 234-263: the jobs, the timestamp and the params; for the source
\* language "auto", line 261 appends to params["lang"]["user_preferred_langs"],
\* a key that the params of lines 239-257 do not have.
TranslateBuild ==
    /\ tpc = "build"
    /\ jobs' = BuildJobs(sentences, <<>>)
    /\ IF source_language = <<"a", "u", "t", "o">>
       THEN Raise(OtherException("KeyError")) /\ UNCHANGED params
       ELSE /\ params' = TranslateParams(BuildJobs(sentences, <<>>), sentences,
                                         source_language, destination_language,
                                         NoneStr, formated_string, now)
            /\ tpc' = "dispatch"
            /\ UNCHANGED <<raised, history>>
    /\ UNCHANGED <<text, destination_language, source_language, dictionary,
                   formated_string, limit, row, warnings, computed_lang,
                   results, returned, remote, sent>>
    /\ UNCHANGED <<sentences, quality, index, before, after, heap, bpc>>
    /\ UNCHANGED <<rvars, lvars, cvars>>

\* Line 265: the call of LMT_handle_jobs.
TranslateDispatch ==
    /\ tpc = "dispatch"
    /\ \E delay \in 0..MaxDelay :
          LET out == SendOutcome(now, last_access, id_number, remote.jobs, delay)
          IN /\ SessionAfter("LMT_handle_jobs", params, out)
             /\ IF out.raised # None
                THEN Raise(out.raised) /\ UNCHANGED results
                ELSE /\ results' = out.result
                     /\ tpc' = "finish"
                     /\ UNCHANGED <<raised, history>>
    /\ UNCHANGED <<text, destination_language, source_language, dictionary,
                   formated_string, limit, row, warnings, computed_lang,
                   params, returned, remote>>
    /\ UNCHANGED <<bvars, lvars, cvars>>

\* Lines 267-274: the detected language and the joined text.
TranslateFinish ==
    /\ tpc = "finish"
    /\ returned' = TranslateReturn(results, source_language)
    /\ tpc' = "done"
    /\ history' = Append(history,
                         [returned |-> TranslateReturn(results, source_language),
                          raised |-> None])
    /\ UNCHANGED <<text, destination_language, source_language, dictionary,
                   formated_string, limit, row, warnings, computed_lang,
                   params, results, raised, remote, sent>>
    /\ UNCHANGED <<bvars, rvars, lvars, cvars>>

TranslateNext ==
    \/ TranslateBegin
    \/ TranslateGlossaryRow
    \/ TranslateGlossaryEnd
    \/ TranslateSplit
    \/ TranslateBuild
    \/ TranslateDispatch
    \/ TranslateFinish

\* -------------------------------------------------------------- _language
\* A call of _language(text) begins (lines 276-278).
LanguageCall ==
    /\ tpc \in {"idle", "done", "raised"}
    /\ Len(history) < MaxCalls
    /\ tpc' = "l_split"
    /\ computed_lang' = NoneStr
    /\ params' = None
    /\ results' = None
    /\ returned' = None
    /\ raised' = None
    /\ UNCHANGED <<text, destination_language, source_language, dictionary,
                   formated_string, limit, row, warnings, remote, sent, history>>
    /\ UNCHANGED <<bvars, rvars, lvars, cvars>>

\* Line 281: _split_into_sentences(text, "EN", "AUTO").
LanguageSplit ==
    /\ tpc = "l_split"
    /\ \E delay \in 0..MaxDelay :
          LET prm == SplitParams(text, EN, <<"A", "U", "T", "O">>)
              out == SendOutcome(now, last_access, id_number, remote.split, delay)
              ret == SplitReturn(out)
          IN /\ SessionAfter("LMT_split_into_sentences", prm, out)
             /\ IF ret.raised # None
                THEN Raise(ret.raised) /\ UNCHANGED <<sentences, computed_lang>>
                ELSE /\ sentences' = ret.sentences
                     /\ computed_lang' = ret.lang
                     /\ tpc' = "l_build"
                     /\ UNCHANGED <<raised, history>>
    /\ UNCHANGED <<text, destination_language, source_language, dictionary,
                   formated_string, limit, row, warnings, params, results,
                   returned, remote>>
    /\ UNCHANGED <<quality, index, before, after, jobs, heap, bpc>>
    /\ UNCHANGED <<lvars, cvars>>

\* Lines 284-305: the jobs, the timestamp and the params.
LanguageBuild ==
    /\ tpc = "l_build"
    /\ jobs' = BuildJobs(sentences, <<>>)
    /\ params' = LanguageParams(BuildJobs(sentences, <<>>), sentences,
                                computed_lang, now)
    /\ tpc' = "l_dispatch"
    /\ UNCHANGED <<text, destination_language, source_language, dictionary,
                   formated_string, limit, row, warnings, computed_lang,
                   results, returned, raised, remote, sent, history>>
    /\ UNCHANGED <<sentences, quality, index, before, after, heap, bpc>>
    /\ UNCHANGED <<rvars, lvars, cvars>>

\* A dispatch that sends the job batch once more when it failed.
LanguageDispatchRetrying ==
    /\ tpc = "l_dispatch"
    /\ \E delay \in 0..MaxDelay :
          LET out == SendOutcome(now, last_access, id_number, remote.jobs, delay)
              mine == {k \in 1..Len(sent) : sent[k].call = Len(history) + 1}
          IN /\ SessionAfter("LMT_handle_jobs", params, out)
             /\ IF out.raised # None /\ Cardinality(mine) < 2
                THEN UNCHANGED <<results, raised, tpc, history>>
                ELSE IF out.raised # None
                THEN Raise(out.raised) /\ UNCHANGED results
                ELSE /\ results' = out.result
                     /\ tpc' = "l_finish"
                     /\ UNCHANGED <<raised, history>>
    /\ UNCHANGED <<text, destination_language, source_language, dictionary,
                   formated_string, limit, row, warnings, computed_lang,
                   params, returned, remote>>
    /\ UNCHANGED <<bvars, lvars, cvars>>

\* Line 307: the call of LMT_handle_jobs.
LanguageDispatch ==
    /\ tpc = "l_dispatch"
    /\ \E delay \in 0..MaxDelay :
          LET out == SendOutcome(now, last_access, id_number, remote.jobs, delay)
          IN /\ SessionAfter("LMT_handle_jobs", params, out)
             /\ IF out.raised # None
                THEN Raise(out.raised) /\ UNCHANGED results
                ELSE /\ results' = out.result
                     /\ tpc' = "l_finish"
                     /\ UNCHANGED <<raised, history>>
    /\ UNCHANGED <<text, destination_language, source_language, dictionary,
                   formated_string, limit, row, warnings, computed_lang,
                   params, returned, remote>>
    /\ UNCHANGED <<bvars, lvars, cvars>>

\* Lines 309-310: the detected language; a response without source_lang
\* is a KeyError.
LanguageFinish ==
    /\ tpc = "l_finish"
    /\ IF results # None /\ "source_lang" \notin DOMAIN results
       THEN Raise(OtherException("KeyError")) /\ UNCHANGED returned
       ELSE /\ returned' = LanguageReturn(results)
            /\ tpc' = "done"
            /\ history' = Append(history, [returned |-> LanguageReturn(results),
                                           raised |-> None])
            /\ UNCHANGED raised
    /\ UNCHANGED <<text, destination_language, source_language, dictionary,
                   formated_string, limit, row, warnings, computed_lang,
                   params, results, remote, sent>>
    /\ UNCHANGED <<bvars, rvars, lvars, cvars>>

LanguageNext ==
    \/ LanguageCall
    \/ LanguageSplit
    \/ LanguageBuild
    \/ LanguageDispatch
    \/ LanguageFinish

\* _build_jobs on every input, the session at rest.
InitBuild == BuildInit /\ SessionInit /\ OneCaller /\ LoadQuiet /\ TranslateQuiet /\ ConstructQuiet

SpecBuild == InitBuild /\ [][BuildNext]_vars

\* load_glossary_from_csv on every input.
InitLoad == BuildQuiet /\ SessionInit /\ OneCaller /\ LoadInit /\ TranslateQuiet /\ ConstructQuiet

SpecLoad == InitLoad /\ [][LoadNext]_vars

\* _translate on every input, on a new session.
InitTranslate == BuildQuiet /\ SessionInit /\ OneCaller /\ LoadQuiet /\ TranslateInit /\ ConstructQuiet

SpecTranslate == InitTranslate /\ [][TranslateNext]_vars

\* _language called again and again on one session.
InitLanguage == BuildQuiet /\ SessionInit /\ OneCaller /\ LoadQuiet /\ LanguageInit /\ ConstructQuiet

SpecLanguage == InitLanguage /\ [][LanguageNext]_vars

\* JSONRPCRequest(request) against every answer to the handshake.
InitConstruct ==
    BuildQuiet /\ SessionUnbuilt /\ OneCaller /\ LoadQuiet /\ TranslateQuiet /\ ConstructInit

SpecConstruct == InitConstruct /\ [][ConstructNext]_vars

\* send_jsonrpc called by one caller.
InitRate1 == BuildQuiet /\ SessionInit /\ OneCaller /\ LoadQuiet /\ TranslateQuiet /\ ConstructQuiet

SpecRate1 == InitRate1 /\ [][RateNext]_vars

\* send_jsonrpc called by two threads on one session.
InitRate2 == BuildQuiet /\ SessionInit /\ TwoCallers /\ LoadQuiet /\ TranslateQuiet /\ ConstructQuiet

SpecRate2 == InitRate2 /\ [][RateNext]_vars

\* ----------------------------------------------------------------- C4, C5
\* C4: for a single caller, any two consecutive posts on the session are
\* at least 5 time units apart, whatever the outcome of the first, and the
\* wait applied before a dispatch is never negative.
C4_Spacing ==
    /\ \A k \in 1..(Len(posts) - 1) :
          posts[k + 1].time - posts[k].time >= MinInterval
    /\ \A c \in Callers : slept[c] >= 0

\* What the code does guarantee a single caller: a post is never issued
\* less than 5 units after the last response was received.
SpacedAfterResponse ==
    \A c \in Callers : pc[c] = "post" => now - last_access >= MinInterval

\* C5: with concurrent callers on one session, the posts have strictly
\* increasing dispatch times and any two are at least 5 units apart.
C5_SharedSpacing ==
    \A j, k \in 1..Len(posts) :
        j < k => /\ posts[j].time < posts[k].time
                 /\ posts[k].time - posts[j].time >= MinInterval

\* ------------------------------------------------------------ C6, C7, C9
\* The null pair (None, None).
NullPair == [kind |-> "tuple", detected |-> NoneStr, text |-> NoneStr]

\* A post of the call met a transport failure.
TransportFailed ==
    \E k \in 1..Len(sent) :
        \/ sent[k].method = "LMT_split_into_sentences" /\ remote.split = Refused
        \/ sent[k].method = "LMT_handle_jobs" /\ remote.jobs = Refused

\* C6: when the post of the split call or of the job-batch call fails,
\* _translate does not raise and returns the null pair (None, None).
C6_SoftFail ==
    (tpc \in {"done", "raised"} /\ TransportFailed)
        => (raised = None /\ returned = NullPair)

\* The number of pairs in a termbase: one tab for each.
Pairs(termbase) == Count(termbase, "\t")

\* Row r of the glossary occurs in the text and holds a quote.
QuotedMatch(r) ==
    LET cells == dictionary.dataframe.rows[r]
    IN /\ IsSubstring(cells[1], text)
       /\ HasChar("\"", cells[1]) \/ HasChar("\"", cells[2])

\* Row r of the glossary occurs in the text and holds no quote.
CleanMatch(r) ==
    LET cells == dictionary.dataframe.rows[r]
    IN /\ IsSubstring(cells[1], text)
       /\ ~HasChar("\"", cells[1])
       /\ ~HasChar("\"", cells[2])

\* C7: the termbase built by _translate holds at most 10 pairs, however
\* many terms occur in the text, in every state of the call and in the
\* request sent; a matching entry with a quote in its source or target is
\* left out and gives a warning (that of the quotes, or that of the limit
\* once 10 pairs are in); and no call with a glossary ends before
\* the split for another reason than the mismatch of languages (5011).
C7_TermbaseCapped ==
    /\ Pairs(formated_string) <= TermLimit
    /\ ~HasChar("\"", formated_string)
    /\ \A k \in 1..Len(sent) :
          sent[k].method = "LMT_handle_jobs"
              => /\ Pairs(sent[k].params.commonJobParams.termbase.dictionary)
                        <= TermLimit
                 /\ sent[k].params.commonJobParams.termbase.dictionary
                        = formated_string
    /\ dictionary.kind = "FormatedGlossary" =>
          /\ \A r \in 1..Len(dictionary.dataframe.rows) :
                (/\ r < row
                 /\ QuotedMatch(r)
                 /\ Cardinality({q \in 1..(r - 1) : CleanMatch(q)}) < TermLimit)
                    => "quotes" \in warnings
          /\ \A r \in 1..Len(dictionary.dataframe.rows) :
                (r < row /\ QuotedMatch(r)) => warnings # {}
          /\ (tpc = "raised" /\ sent = <<>>)
                => raised = DeeplTranslateException(5011)

\* A call whose glossary has more than 10 matching terms and a quoted one
\* among them, which went on to split and dispatch with 10 pairs.
C7_Witness ==
    /\ tpc = "done"
    /\ dictionary.kind = "FormatedGlossary"
    /\ Cardinality({r \in 1..Len(dictionary.dataframe.rows) : CleanMatch(r)})
           > TermLimit
    /\ \E r \in 1..Len(dictionary.dataframe.rows) : QuotedMatch(r)
    /\ "quotes" \in warnings
    /\ Pairs(formated_string) = TermLimit
    /\ Len(sent) = 2
    /\ Pairs(sent[2].params.commonJobParams.termbase.dictionary) = TermLimit

\* The top-ranked texts of a response, in order, and those that are kept.
Tops(res) ==
    [k \in 1..Len(res.translations) |->
        res.translations[k].beams[1].sentences[1].text]
Kept(res) == SelectSeq(Tops(res), LAMBDA t : Len(t) > 0)

\* The place in the joined text before the j-th kept text.
Offset(kept, j) ==
    LET F[i \in 0..Len(kept)] ==
            IF i = 0 THEN 0 ELSE F[i - 1] + Len(kept[i]) + 1
    IN F[j - 1]

\* C9: when the job-batch call succeeds, the text returned is made of the
\* non-empty top-ranked texts (first beam, first sentence) in the order of
\* the response, each separated from the next by exactly one space, with
\* nothing before the first or after the last.
C9_JoinedText ==
    (tpc = "done" /\ returned # None /\ history # <<>> /\ returned.kind = "tuple")
        => LET kept == Kept(results)
               out == returned.text
           IN /\ Len(out) = IF kept = <<>> THEN 0
                            ELSE Offset(kept, Len(kept) + 1) - 1
              /\ \A j \in 1..Len(kept) :
                    /\ SubSeq(out, Offset(kept, j) + 1,
                              Offset(kept, j) + Len(kept[j])) = kept[j]
                    /\ j > 1 => out[Offset(kept, j)] = " "

\* A response of three translations, the middle one empty, joined to
\* "A Bc".
C9_Witness ==
    /\ tpc = "done"
    /\ returned # None
    /\ Len(results.translations) = 3
    /\ Tops(results) = <<<<"A">>, <<>>, <<"B", "c">>>>
    /\ returned.text = <<"A", " ", "B", "c">>

\* -------------------------------------------------------------------- C10
\* C10: calls of _language in succession on one session, with the same
\* text and the same answers of the service, all end the same way: the
\* same detected language is returned (or the same exception raised).
C10_SameLanguage ==
    \A i, j \in 1..Len(history) : history[i] = history[j]

\* Two calls that returned "EN", the session's id and last_access having
\* moved in between.
C10_Witness ==
    /\ Len(history) = 2
    /\ history[1].returned = Str(EN)
    /\ history[2].returned = Str(EN)
    /\ Len(sent) = 4
    /\ sent[4].id = sent[2].id + 2
    /\ sent[4].time >= sent[2].time + MinInterval
    /\ last_access > Epoch

\* --------------------------------------------------------------------- C8
\* C8: load_glossary_from_csv with source "EN" and target "KO" raises the
\* error "EN can only be combined with ..." (code 5002).
C8_EnKoRaises5002 ==
    (lg_source = EN /\ lg_target = KO /\ lpc = "raised")
        => lg_raised = DeeplTranslateException(5002)

\* The value _build_jobs returns.
Returned == JobsView(jobs, heap)

\* ------------------------------------------------------------ C1, C2, C3
\* C1: _build_jobs returns exactly one job per sentence, in input order:
\* while walking there is one job for each sentence passed, and on return
\* len(jobs) = len(sentences) and job i carries sentences[i].
C1_OneJobPerSentence ==
    /\ Len(jobs) = index
    /\ \A k \in 1..Len(jobs) :
          /\ Len(Returned[k].sentences) = 1
          /\ Returned[k].sentences[1].text = sentences[k]
    /\ bpc = "done" => Len(Returned) = Len(sentences)

\* A walk that returned the jobs of a sequence of several sentences.
C1_Witness ==
    /\ bpc = "done"
    /\ Len(sentences) = 3
    /\ Len(Returned) = 3

\* A walk over the single sentence, where the IndexError path was taken.
C1_WitnessSingle == bpc = "done" /\ Len(sentences) = 1 /\ Len(Returned) = 1

\* C2: in every state of the walk and on return, the context_before of
\* job i (0-based) has length min(i, 5) and is sentences[max(0, i-5) .. i-1]
\* in order; so no later eviction or append changes an earlier job.
C2_ContextBefore ==
    \A k \in 1..Len(jobs) :
        LET i == k - 1
            ctx == Returned[k].raw_en_context_before
        IN /\ Len(ctx) = Min(i, 5)
           /\ ctx = SubSeq(sentences, Max(0, i - 5) + 1, i)

\* A returned walk long enough for the window to have evicted twice, with
\* the first jobs still holding their short windows.
C2_Witness ==
    /\ bpc = "done"
    /\ Len(sentences) >= 7
    /\ Returned[1].raw_en_context_before = <<>>
    /\ Len(Returned[3].raw_en_context_before) = 2
    /\ Returned[7].raw_en_context_before = SubSeq(sentences, 2, 6)
    /\ sentences[1] # sentences[2]

\* C3: the context_after of every job but the last is the one following
\* sentence, and that of the last job (also of an only job) is empty.
C3_ContextAfter ==
    \A k \in 1..Len(jobs) :
        Returned[k].raw_en_context_after =
            IF k < Len(sentences) THEN <<sentences[k + 1]>> ELSE <<>>

\* A returned walk of three sentences: two look-aheads and an empty one.
C3_Witness ==
    /\ bpc = "done"
    /\ Len(sentences) = 3
    /\ Returned[2].raw_en_context_after = <<sentences[3]>>
    /\ Returned[3].raw_en_context_after = <<>>

\* -------------------------------------------------------------------- C11
\* The handshake succeeded: a response with a 2xx status whose body is a
\* JSON object carrying a numeric id.
HandshakeSucceeded ==
    /\ handshake.kind = "response"
    /\ handshake.status \in 200..299
    /\ handshake.body.kind = "object"
    /\ "id" \in DOMAIN handshake.body
    /\ handshake.body.id # NoneInt

\* An id of the form k * 10000 + 1 with k in 1000..9999.
LocallyGenerated(n) ==
    /\ n % RandFactor = 1
    /\ n \div RandFactor \in RandLow..RandHigh

\* C11: constructing a JSONRPCRequest never raises; once constructed, the
\* session id is the id of the handshake response when the handshake
\* succeeded, and after any handshake failure (transport exception,
\* malformed response, non-2xx status) it is a locally generated id of the
\* form k * 10000 + 1 with k in 1000..9999, so that the session is usable.
C11_SessionId ==
    /\ cpc = "ready" =>
          IF HandshakeSucceeded
          THEN id_number = handshake.body.id
          ELSE LocallyGenerated(id_number)
    /\ cpc # "type_error"

\* -------------------------------------------------------------------- C12
\* The exception send_jsonrpc leaves with for an answer that is no result.
ExceptionOf(answer) ==
    CASE answer.kind = "rpc_error" -> DeeplTranslateException(answer.code)
      [] answer.kind = "bad_json" -> OtherException("JSONDecodeError")
      [] answer.kind = "refused" -> OtherException("ConnectionError")

\* C12: send_jsonrpc hands a result payload to its caller only for a
\* response with the success status, and then the payload of that
\* response; a response with another status makes it raise a
\* DeeplTranslateException carrying the error code of the response, and
\* the call it was made from receives no value (no None, no placeholder)
\* and goes no further.
C12_ErrorsRaised ==
    /\ (Len(sent) >= 1 /\ remote.split.kind # "result") =>
          /\ tpc = "raised"
          /\ Len(sent) = 1
          /\ raised = ExceptionOf(remote.split)
          /\ results = None /\ returned = None
    /\ (Len(sent) = 2 /\ remote.jobs.kind # "result") =>
          /\ tpc = "raised"
          /\ raised = ExceptionOf(remote.jobs)
          /\ results = None /\ returned = None
    /\ tpc \in {"build", "dispatch", "finish", "done"} =>
          /\ remote.split.kind = "result"
          /\ sentences = remote.split.result.splitted_texts[1]
    /\ tpc \in {"finish", "done"} =>
          /\ remote.jobs.kind = "result"
          /\ results = remote.jobs.result

\* The job batch was answered with status 429 and the code 1042912, and
\* the call left with the exception of that code.
C12_Witness ==
    /\ tpc = "raised"
    /\ Len(sent) = 2
    /\ remote.jobs = RpcError(1042912)
    /\ raised = DeeplTranslateException(1042912)

\* -------------------------------------------------------------------- C13
\* C13: on a session used by a single caller, the id carried by each
\* request is exactly one greater than the id carried by the request
\* before it, whether that one ended in a result, in an RPC error or in a
\* failure of the transport; the ids are strictly increasing and none is
\* used twice.
C13_IdsSucceed ==
    /\ \A k \in 1..(Len(posts) - 1) : posts[k + 1].id = posts[k].id + 1
    /\ \A j, k \in 1..Len(posts) : j < k => posts[j].id < posts[k].id

\* Two requests of which the first got no response (last_access is still
\* that of the constructor): the second carries the next id.
C13_Witness ==
    /\ Len(posts) = 2
    /\ last_access = 0
    /\ posts[2].id = posts[1].id + 1
    /\ pc[1] = "inflight"

\* -------------------------------------------------------------------- C14
\* The call has left _split_into_sentences (line 231), by a return or by
\* an exception.
SplitLeft ==
    \/ tpc \in {"build", "dispatch", "finish", "done"}
    \/ tpc = "raised" /\ Len(sent) >= 1

\* C14: _split_into_sentences falls back to the local split: with
\* REGEX_SPLIT true, and when the remote splitting call fails or answers
\* with an RPC error, it does not raise and returns the text split at
\* sentence-ending punctuation followed by blanks, with None as the
\* computed language.
C14_LocalSplit ==
    SplitLeft =>
        /\ ~(tpc = "raised" /\ Len(sent) = 1 /\ raised = ExceptionOf(remote.split))
        /\ sentences = RegexSplit(text)
        /\ computed_lang = NoneStr

\* -------------------------------------------------------------------- C15
\* The call was given a glossary (neither the empty string nor None).
HasGlossary == dictionary # Str(<<>>) /\ dictionary # None

\* The language pair the glossary declares is not the pair of the call.
PairMismatch ==
    \/ Upper(source_language) # dictionary.source_language
    \/ Upper(destination_language) # dictionary.target_language

\* C15: a call of _translate with a glossary whose declared language pair
\* is not the pair of the call fails with DeeplTranslateException(5011)
\* before any request is posted: nothing is sent and the session's id
\* counter and last_access are as they were.
C15_ValidationFirst ==
    /\ (HasGlossary /\ PairMismatch /\ tpc # "start") =>
          /\ tpc = "raised"
          /\ raised = DeeplTranslateException(5011)
    /\ raised = DeeplTranslateException(5011) =>
          /\ sent = <<>>
          /\ posts = <<>>
          /\ id_number = FirstId
          /\ last_access = 0

\* A glossary EN -> FR with terms, used in a call EN -> DE: the call
\* ended with 5011.
C15_Witness ==
    /\ HasGlossary
    /\ Len(dictionary.dataframe.rows) = 2
    /\ source_language = EN
    /\ destination_language = DE
    /\ tpc = "raised"
    /\ raised = DeeplTranslateException(5011)
    /\ sent = <<>>

\* -------------------------------------------------------------------- C16
\* The glossary is one for the languages of the call and none of its
\* source terms occurs in the text.
NoTermOccurs ==
    /\ HasGlossary
    /\ ~PairMismatch
    /\ LET df == dictionary.dataframe
           scol == ColumnOf(df.columns, Upper(source_language))
       IN /\ scol # 0
          /\ \A r \in 1..Len(df.rows) : ~IsSubstring(df.rows[r][scol], text)

\* C16: a call of _translate without a glossary (the parameter left at
\* its default, None) or with a glossary none of whose terms occurs in the
\* text does not raise before it splits and dispatches, and the termbase
\* dictionary of the job-batch request it sends is the empty string.
C16_EmptyTermbase ==
    (dictionary = None \/ NoTermOccurs) =>
        /\ tpc = "raised" => Len(sent) >= 1
        /\ \A k \in 1..Len(sent) :
              sent[k].method = "LMT_handle_jobs" =>
                  sent[k].params.commonJobParams.termbase.dictionary = <<>>

\* The half of C16 that the code meets: with a glossary for the call's
\* languages of which no term occurs, the job batch is sent with an empty
\* termbase.
C16_NoMatchSent ==
    /\ NoTermOccurs
    /\ Len(dictionary.dataframe.rows) = 2
    /\ Len(sent) = 2
    /\ sent[2].params.commonJobParams.termbase.dictionary = <<>>

\* -------------------------------------------------------------------- C17
\* The split step of the call returned its pair (sentences, computed
\* language).
SplitReturned ==
    /\ Len(sent) >= 1
    /\ remote.split.kind = "result"
    /\ remote.split.result # None

\* C17: a call of _translate with the source language "auto", once its
\* split step has returned, dispatches the job-batch request, and that
\* request carries the computed language of the split step as
\* source_lang_computed.
C17_AutoMerged ==
    (/\ source_language = <<"a", "u", "t", "o">>
     /\ SplitReturned
     /\ tpc \in {"raised", "finish", "done"}) =>
        /\ Len(sent) = 2
        /\ sent[2].method = "LMT_handle_jobs"
        /\ sent[2].params.lang.source_lang_computed = computed_lang

\* -------------------------------------------------------------------- C18
\* One more than the number of letters "i" in all the sentences.
LetterCount ==
    LET positions == UNION {{<<k, j>> : j \in 1..Len(sentences[k])} :
                               k \in 1..Len(sentences)}
    IN 1 + Cardinality({pos \in positions : sentences[pos[1]][pos[2]] = "i"})

\* C18: the timestamp of a job-batch request is consistent with the
\* character count: with n one more than the number of letters "i" in
\* the sentences and ts the base time, it is a multiple of n and
\* ts < timestamp <= ts + n.
C18_Timestamp ==
    tpc \in {"l_dispatch", "dispatch"} =>
        LET n == LetterCount
            ts == TsAt(now)
        IN /\ params.timestamp % n = 0
           /\ ts < params.timestamp
           /\ params.timestamp <= ts + n

\* A request for six letters "i" (n = 7) at a base time that is no
\* multiple of 7, and so a timestamp strictly between ts and ts + n.
C18_Witness ==
    /\ tpc = "l_dispatch"
    /\ LetterCount = 7
    /\ TsAt(now) % 7 # 0
    /\ params.timestamp > TsAt(now)
    /\ params.timestamp < TsAt(now) + 7
    /\ Len(history) >= 1

\* -------------------------------------------------------------------- C19
\* C19: no call retries: a call sends at most one job-batch request
\* (LMT_handle_jobs), sends it only after the split request of the same
\* call was answered with a result, and sends no request a second time,
\* whether it failed, was answered with an error or succeeded.
C19_NoRetry ==
    /\ \A k \in 1..Len(sent) :
          sent[k].method = "LMT_handle_jobs" =>
              /\ k > 1
              /\ sent[k - 1].method = "LMT_split_into_sentences"
              /\ sent[k - 1].call = sent[k].call
              /\ remote.split.kind = "result"
    /\ \A j, k \in 1..Len(sent) :
          j < k =>
              /\ sent[j].id # sent[k].id
              /\ sent[j].call = sent[k].call => sent[j].method # sent[k].method

\* Two calls whose job batch was refused: each sent its split request and
\* its job batch once, four requests in all.
C19_Witness ==
    /\ Len(history) = 2
    /\ remote.jobs = Refused
    /\ Len(sent) = 4
    /\ sent[2].method = "LMT_handle_jobs" /\ sent[2].call = 1
    /\ sent[4].method = "LMT_handle_jobs" /\ sent[4].call = 2
    /\ tpc = "raised"

\* -------------------------------------------------------------------- C20
\* C20: when two callers run send_jsonrpc on one session at the same
\* time, no two requests carry the same id, and no increment is lost:
\* once k requests are dispatched and no caller is inside dump, the
\* counter has advanced by exactly k.
C20_SharedIds ==
    /\ \A j, k \in 1..Len(posts) : j # k => posts[j].id # posts[k].id
    /\ (\A c \in Callers : pc[c] \in {"idle", "inflight"}) =>
          id_number = FirstId + Len(posts)

\* -------------------------------------------------------------------- C21
\* The caller's post ends in this step: with an exception of the
\* transport, or with a response.
PostRaised(c) ==
    pc[c] = "inflight" /\ pc'[c] = "idle" /\ outcome'[c] = "transport_error"

PostAnswered(c) ==
    pc[c] = "inflight" /\ pc'[c] = "idle" /\ outcome'[c] \in Responses

\* C21: a call of send_jsonrpc whose post raises has advanced the id
\* counter by one (the counter stands at the id of the request, one more
\* per call made) and leaves last_access as it was; last_access is set
\* exactly when a response is received, to the time of its receipt and
\* whatever its status, so only received responses restart the window.
C21_FrameOfFailure ==
    [][/\ PostRaised(1) =>
             /\ last_access' = last_access
             /\ id_number' = id_number
             /\ id_number = reqId[1]
             /\ id_number = FirstId + calls[1]
       /\ PostAnswered(1) => last_access' = now
       /\ last_access' # last_access => PostAnswered(1)]_vars

\* A first call whose response was received and a second whose post
\* raised: the counter stands two above its start and last_access is
\* still the time of the first response.
C21_Witness ==
    /\ calls[1] = 2
    /\ pc[1] = "idle"
    /\ outcome[1] = "transport_error"
    /\ id_number = FirstId + 2
    /\ last_access >= Epoch
    /\ last_access = posts[1].time

\* -------------------------------------------------------------------- C22
\* The codes of the eight combination checks, 5002 to 5009.
CombinationCodes == {Combinations[k].code : k \in 1..Len(Combinations)}

\* C22: load_glossary_from_csv never raises one of the combination errors
\* 5002..5009: every language pair either raises 5000 or 5001 in the
\* language checks, or passes all eight combination checks once it
\* reaches them.
C22_CombinationsUnreachable ==
    /\ \A code \in CombinationCodes : lg_raised # DeeplTranslateException(code)
    /\ lpc = "combinations" =>
          \A k \in 1..Len(Combinations) :
              lg_source = Combinations[k].source =>
                  lg_target \in Combinations[k].targets
    /\ (lpc = "raised" /\ lg_result = None /\ lg_raised \notin
           {DeeplTranslateException(5000), DeeplTranslateException(5001)}) =>
          /\ lg_source \in glossary_supported_languages
          /\ lg_target \in glossary_supported_languages
          /\ lg_source # lg_target

\* A pair that went through the combination checks (NL, JA), and with it
\* the last of the eight checks, was let through.
C22_Witness ==
    /\ lpc = "sort"
    /\ lg_source = NL
    /\ lg_target = JA
    /\ lg_raised = None

====
